---- MODULE Spec2Model ----
(***************************************************************************)
(* Model of the deploy-hlpages action: the Context Loader (context.js),    *)
(* the API client (api-client.js: getAllFiles, uploadFile,                 *)
(* uploadDirectory, validateApiAccess), the upload orchestrator            *)
(* (deployment.js: FileUploader.create/check/cancel) and the entry point   *)
(* main() with its SIGINT/SIGTERM handlers.                                *)
(*                                                                         *)
(* The program runs on one event-loop thread.  Every action below is one   *)
(* run-to-completion segment of that thread, or a part of one; pc names    *)
(* the position of main().  A signal handler can only run while the thread *)
(* is suspended on an HTTP request or done (the event loop draining), so   *)
(* Signal is enabled only there.  A signal that arrives before the         *)
(* handlers are registered is outside the model.                           *)
(***************************************************************************)
EXTENDS Integers, Sequences, FiniteSets, TLC

VARIABLES
  pc,           \* position of main(): see PcValues
  ctx,          \* the context returned by getContext (fields of FileUploader)
  handlers,     \* TRUE once process.on('SIGINT'/'SIGTERM') have run
  status,       \* FileUploader.status
  uploadInfo,   \* FileUploader.uploadInfo (Null or a record)
  startTime,    \* FileUploader.startTime (0 models null)
  now,          \* Date.now(), a clock that advances while a request is awaited
  fs,           \* the source directory as create()/getAllFiles find it
  files,        \* uploadDirectory: the sequence returned by getAllFiles
  idx,          \* uploadDirectory: index of the loop's current file
  results,      \* uploadDirectory: the results object being accumulated
  inFlight,     \* HTTP requests issued and not yet resolved
  attempts,     \* history: one entry per uploadFile call, in order
  createError,  \* the error create() raised to its caller (NoError if none)
  log,          \* core.warning / core.setFailed calls, in order
  outputs,      \* core.setOutput calls: <<>> = not emitted, <<v>> = emitted
  exitCode,     \* process.exitCode, and the exit code once pc = "exited"
  cancelCalls,  \* history: number of calls of FileUploader.cancel
  checkCalls,   \* history: number of calls of FileUploader.check
  probed,       \* history: once the access probe resolved, <<outcome, error
                \* validateApiAccess threw (NoError if it returned true)>>
  signalled,    \* history: TRUE once a SIGINT/SIGTERM handler has run
  environ       \* history: the required inputs and the environment
                \* variables as getContext found them

vars == <<pc, ctx, handlers, status, uploadInfo, startTime, now, fs, files,
          idx, results, inFlight, attempts, createError, log, outputs,
          exitCode, cancelCalls, checkCalls, probed, signalled, environ>>

----------------------------------------------------------------------------
(* Bounds *)

\* largest number of directory entries (at all depths) under the source dir
MaxNodes == 3

----------------------------------------------------------------------------
(* Constants of the program *)

uploadStatus == [pending |-> "pending", uploading |-> "uploading",
                 success |-> "success", failed |-> "failed",
                 cancelled |-> "cancelled"]

PcValues == {"start", "create", "probe", "enumerate", "loop", "awaitUpload",
             "check", "draining", "mainCatch", "exited"}

Null == [null |-> TRUE]
NoError == [none |-> TRUE]
NoOutputs == [status |-> <<>>, upload_result |-> <<>>, total_files |-> <<>>,
              success_files |-> <<>>, failed_files |-> <<>>, duration |-> <<>>]
NoFs == [srcKind |-> "unread", readable |-> TRUE, nodes |-> <<>>]

\* Number.prototype.toString() of a natural number
DecDigits == <<"0", "1", "2", "3", "4", "5", "6", "7", "8", "9">>
RECURSIVE toString(_)
toString(n) ==
  IF n < 10 THEN DecDigits[n + 1]
  ELSE toString(n \div 10) \o DecDigits[(n % 10) + 1]

\* an Error object: its message and, for an axios HTTP error, the status of
\* error.response (0 = no response attached)
Err(message, httpStatus) == [message |-> message, response |-> httpStatus]

----------------------------------------------------------------------------
(* Context Loader *)

\* what the workflow supplies for an input: nothing, only white space, a value
InputVals == {"absent", "blank", "value"}
EnvVars == {"GITHUB_RUN_ID", "GITHUB_REPOSITORY", "GITHUB_SHA"}

\* mutant: the required flag of getInput is ignored
GetInputThrows_NotRequired(supplied, required) == FALSE

\* core.getInput(name, {required}): throws when a required input is not
\* supplied, otherwise returns the trimmed value ("" or "set")
GetInputThrows(supplied, required) == required /\ supplied = "absent"
GetInput(supplied) == IF supplied = "value" THEN "set" ELSE ""

\* a || b on strings
OrElse(a, b) == IF a # "" THEN a ELSE b

\* getRequiredVars: the record of the context; "undefined" is JS undefined
getRequiredVars(inp, env) ==
  [apiToken     |-> GetInput(inp.api_token),
   siteId       |-> GetInput(inp.site_id),
   apiBaseUrl   |-> OrElse(GetInput(inp.api_base_url), "set"),
   sourceDir    |-> OrElse(GetInput(inp.source_dir), "set"),
   timeout      |-> 600000,
   maxRetries   |-> 3,
   workflowRun  |-> IF env["GITHUB_RUN_ID"] THEN "set" ELSE "undefined",
   repositoryNwo|-> IF env["GITHUB_REPOSITORY"] THEN "set" ELSE "undefined",
   buildVersion |-> IF env["GITHUB_SHA"] THEN "set" ELSE "undefined"]

\* getContext throws when getInput throws or when a field is undefined
\* (the string fields are the ones that can be)
getContextThrows(inp, env) ==
  \/ GetInputThrows(inp.api_token, TRUE)
  \/ GetInputThrows(inp.site_id, TRUE)
  \/ \E f \in {"apiToken", "siteId", "apiBaseUrl", "sourceDir",
               "workflowRun", "repositoryNwo", "buildVersion"} :
        getRequiredVars(inp, env)[f] = "undefined"

\* the error getContext throws (NoError if it returns): core.getInput names
\* the input that is required and not supplied; getContext's loop names the
\* first field, in the order of getRequiredVars' record, that is undefined
getContextError(inp, env) ==
  IF GetInputThrows(inp.api_token, TRUE)
  THEN Err("Input required and not supplied: api_token", 0)
  ELSE IF GetInputThrows(inp.site_id, TRUE)
  THEN Err("Input required and not supplied: site_id", 0)
  ELSE IF getRequiredVars(inp, env).workflowRun = "undefined"
  THEN Err("workflowRun is undefined. Cannot continue.", 0)
  ELSE IF getRequiredVars(inp, env).repositoryNwo = "undefined"
  THEN Err("repositoryNwo is undefined. Cannot continue.", 0)
  ELSE IF getRequiredVars(inp, env).buildVersion = "undefined"
  THEN Err("buildVersion is undefined. Cannot continue.", 0)
  ELSE NoError

NoEnviron == [api_token |-> "unread", site_id |-> "unread",
              env |-> [v \in EnvVars |-> FALSE]]

NoCtx == [apiToken |-> "", siteId |-> "", apiBaseUrl |-> "", sourceDir |-> "",
          timeout |-> 0, maxRetries |-> 0,
          workflowRun |-> "undefined", repositoryNwo |-> "undefined",
          buildVersion |-> "undefined"]

----------------------------------------------------------------------------
(* The file system under the source directory *)

\* A tree is a sequence of entries; entry i is named EntryName(i), lies in the
\* directory nodes[i].parent (0 = the source directory itself) and readdir
\* lists a directory's entries in increasing order of i.
\* kind: "file" regular file, "vanished" regular file whose statSync throws
\* (removed after readdir listed it), "dir" readable directory, "baddir"
\* directory whose readdirSync throws, "other" neither file nor directory
\* (symbolic link, socket, ...)
Kinds == {"file", "vanished", "dir", "baddir", "other"}
EntryName(i) == "e" \o toString(i)

IsTree(nodes) ==
  \A i \in 1..Len(nodes) :
     /\ nodes[i].parent < i
     /\ nodes[i].parent # 0 => nodes[nodes[i].parent].kind = "dir"

Trees ==
  UNION { { t \in [1..n -> [parent : 0..(n-1), kind : Kinds]] : IsTree(t) }
          : n \in 0..MaxNodes }

isDirectory(nodes, i) == nodes[i].kind \in {"dir", "baddir"}
isFile(nodes, i) == nodes[i].kind \in {"file", "vanished"}
statSyncThrows(nodes, i) == nodes[i].kind = "vanished"

\* fs.readdirSync(d): the entries of directory d in listing order
Indices(n) == [i \in 1..n |-> i]
readdirSync(nodes, d) ==
  LET in(i) == nodes[i].parent = d IN SelectSeq(Indices(Len(nodes)), in)
\* mutant: a failed readdirSync is swallowed and read as an empty listing
readdirThrows_Swallowed(tree, d) == FALSE

readdirThrows(tree, d) ==
  IF d = 0 THEN ~tree.readable ELSE tree.nodes[d].kind = "baddir"

\* A path is the sequence of its components; entry i is named EntryName(i).
\* path.relative(basePath, fullPath) of entry i:
RECURSIVE relative(_, _)
relative(nodes, i) ==
  IF nodes[i].parent = 0 THEN <<EntryName(i)>>
  ELSE Append(relative(nodes, nodes[i].parent), EntryName(i))

FileRecord(nodes, i) ==
  [localPath |-> <<"sourceDir">> \o relative(nodes, i),
   relativePath |-> relative(nodes, i),
   name |-> EntryName(i)]

\* getAllFiles(dirPath, basePath): [ok |-> TRUE, files |-> ...] or a throw
Thrown == [ok |-> FALSE, files |-> <<>>]
RECURSIVE getAllFiles(_, _), WalkItems(_, _, _)
getAllFiles(tree, d) ==
  IF readdirThrows(tree, d) THEN Thrown
  ELSE WalkItems(tree, readdirSync(tree.nodes, d), <<>>)
WalkItems(tree, items, acc) ==
  IF items = <<>> THEN [ok |-> TRUE, files |-> acc]
  ELSE LET i == Head(items) IN
    IF isDirectory(tree.nodes, i)
    THEN LET sub == getAllFiles(tree, i) IN
         IF sub.ok THEN WalkItems(tree, Tail(items), acc \o sub.files)
         ELSE Thrown
    ELSE IF isFile(tree.nodes, i)
    THEN IF statSyncThrows(tree.nodes, i) THEN Thrown
         ELSE WalkItems(tree, Tail(items),
                        Append(acc, FileRecord(tree.nodes, i)))
    ELSE WalkItems(tree, Tail(items), acc)

----------------------------------------------------------------------------
(* core.* calls *)

Warning(fn, what, file, msg) ==
  [fn |-> fn, level |-> "warning", what |-> what, file |-> file, msg |-> msg]
SetFailed(fn, msg) ==
  [fn |-> fn, level |-> "setFailed", what |-> msg, file |-> <<>>, msg |-> msg]

----------------------------------------------------------------------------
(* API client *)

\* outcome of an HTTP request: 200 = response, 0 = failure without a
\* response (network error), any other value = that HTTP error status
ProbeOutcomes == {200, 401, 403, 404, 500, 0}
UploadOutcomes == {200, 500, 0}

\* the error axios rejects with
AxiosError(outcome) ==
  IF outcome = 0 THEN Err("Network Error", 0)
  ELSE Err("Request failed with status code " \o toString(outcome), outcome)

\* mutant: the catch block wraps every other failure in a new Error
validateApiAccessError_WrapAll(error) ==
  IF error.response = 401 THEN Err("API Token invalid or expired", 0)
  ELSE IF error.response = 403 THEN Err("API Token lacks permission", 0)
  ELSE IF error.response = 404 THEN Err("site id does not exist", 0)
  ELSE Err("API access validation failed", 0)

\* validateApiAccess, catch block: the error thrown for a failed probe
validateApiAccessError(error) ==
  IF error.response = 401 THEN Err("API Token invalid or expired", 0)
  ELSE IF error.response = 403 THEN Err("API Token lacks permission", 0)
  ELSE IF error.response = 404 THEN Err("site id does not exist", 0)
  ELSE error

\* path.dirname of a relative path
dirname(p) == IF Len(p) <= 1 THEN <<".">> ELSE SubSeq(p, 1, Len(p) - 1)

\* uploadDirectory: the results object before the loop
NewResults(fileSeq) ==
  [total |-> Len(fileSeq), success |-> 0, failed |-> 0, errors |-> <<>>]

\* uploadDirectory: results.success++
RecordSuccess(r) == [r EXCEPT !.success = @ + 1]
\* mutant: the catch block counts the failure and forgets errors.push
RecordFailure_NoPush(r, file, error) == [r EXCEPT !.failed = @ + 1]

\* uploadDirectory, catch block of the loop body
RecordFailure(r, file, error) ==
  [r EXCEPT !.failed = @ + 1,
            !.errors = Append(@, [file |-> file.relativePath,
                                  error |-> error.message])]
\* mutant: uploadFile is called without await, the loop goes on at once
IssueNext_NoAwait(i) == [pc |-> "loop", idx |-> i + 1]

\* uploadDirectory: where the loop is after uploadFile has issued its
\* request: suspended on the await, still at file i
IssueNext(i) == [pc |-> "awaitUpload", idx |-> i]
\* mutant: a failed upload breaks out of the loop
AfterFailure_Abort(i, n) == n + 1

\* uploadDirectory: the loop's next file after file i failed
AfterFailure(i, n) == i + 1

UploadReq(n) == [req |-> "upload", n |-> n]
ProbeReq == [req |-> "probe", n |-> 0]

----------------------------------------------------------------------------
(* Upload orchestrator *)

MAX_TIMEOUT == 600000

\* validateConfig: the error it throws, NoError if it returns
validateConfig(c) ==
  IF c.apiToken = "" THEN Err("API Token not configured", 0)
  ELSE IF c.siteId = "" THEN Err("site id not configured", 0)
  ELSE IF c.apiBaseUrl = "" THEN Err("API base URL not configured", 0)
  ELSE NoError

\* create: what path.resolve(sourceDir) is on disk
SrcKinds == {"missing", "file", "dir"}

\* mutant: the isDirectory check is missing
sourceDirError_NoDirCheck(kind) ==
  IF kind = "missing" THEN Err("source directory does not exist", 0)
  ELSE NoError

\* create: the checks of the source directory
sourceDirError(kind) ==
  IF kind = "missing" THEN Err("source directory does not exist", 0)
  ELSE IF kind # "dir" THEN Err("source path is not a directory", 0)
  ELSE NoError
\* mutant: the status is success whatever the count of failures
ResolveStatus_AlwaysSuccess(uploadResult) == uploadStatus.success

\* create: the status chosen from the upload result
ResolveStatus(uploadResult) ==
  IF uploadResult.failed = 0 THEN uploadStatus.success
  ELSE uploadStatus.failed

\* create: the UploadInfo record built from the upload result
MakeUploadInfo(uploadResult, buildVersion, start, t) ==
  [total |-> uploadResult.total, success |-> uploadResult.success,
   failed |-> uploadResult.failed, errors |-> uploadResult.errors,
   id |-> OrElse(buildVersion, toString(t)),
   startTime |-> start, endTime |-> t,
   cancelled |-> FALSE]   \* FALSE: the field is absent
\* mutant: the catch block leaves the status as it is
CatchStatus_Keep(st) == st

\* create, catch block: the status it sets
CatchStatus(st) == uploadStatus.failed

\* create, catch block: the error it throws
createCatchError(error) ==
  IF error.response # 0
  THEN Err("upload failed, status code " \o toString(error.response), 0)
  ELSE error

\* mutant: the early return looks at uploadInfo only
CancelNoOp_InfoOnly(st, info) == info = Null

\* mutant: the early return looks at the status only
CancelNoOp_StatusOnly(st, info) ==
  st = uploadStatus.success \/ st = uploadStatus.failed

\* cancel: the early return
CancelNoOp(st, info) ==
  info = Null \/ st = uploadStatus.success \/ st = uploadStatus.failed

\* cancel: the object's fields after the call at time t
cancel(st, info, t) ==
  IF CancelNoOp(st, info) THEN [status |-> st, uploadInfo |-> info]
  ELSE [status |-> uploadStatus.cancelled,
        uploadInfo |-> IF info # Null
                       THEN [info EXCEPT !.cancelled = TRUE, !.endTime = t]
                       ELSE info]
\* mutant: the result and the counts are emitted whatever the status
CountOutputs_Always(st, info) ==
  [upload_result |-> <<[json |-> info]>>,
   total_files |-> <<toString(info.total)>>,
   success_files |-> <<toString(info.success)>>,
   failed_files |-> <<toString(info.failed)>>]

\* check: the outputs that carry the result and the counts (success branch)
CountOutputs(st, info) ==
  IF st = uploadStatus.success
  THEN [upload_result |-> <<[json |-> info]>>,
        total_files |-> <<toString(info.total)>>,
        success_files |-> <<toString(info.success)>>,
        failed_files |-> <<toString(info.failed)>>]
  ELSE [upload_result |-> <<>>, total_files |-> <<>>,
        success_files |-> <<>>, failed_files |-> <<>>]

\* check: the core.warning calls of the success branch
RECURSIVE FailedFileWarnings(_)
FailedFileWarnings(errors) ==
  IF errors = <<>> THEN <<>>
  ELSE <<Warning("check", "failedFile", Head(errors).file, Head(errors).error)>>
       \o FailedFileWarnings(Tail(errors))
CheckWarnings(st, info) ==
  IF st = uploadStatus.success /\ info.failed > 0
  THEN <<Warning("check", "partialFailure", <<>>, toString(info.failed))>>
       \o (IF Len(info.errors) > 0
           THEN <<Warning("check", "failedList", <<>>, "")>>
                \o FailedFileWarnings(info.errors)
           ELSE <<>>)
  ELSE <<>>
\* mutant: the failed branch forgets core.setFailed
CheckFailures_FailedSilent(st) ==
  IF st = uploadStatus.cancelled
  THEN <<SetFailed("check", "upload cancelled")>>
  ELSE <<>>

\* check: the core.setFailed calls of the switch
CheckFailures(st) ==
  IF st = uploadStatus.failed THEN <<SetFailed("check", "upload failed")>>
  ELSE IF st = uploadStatus.cancelled
  THEN <<SetFailed("check", "upload cancelled")>>
  ELSE <<>>

\* check: the messages and outputs of one call
check(st, info, start) ==
  IF info = Null
  THEN [log |-> <<SetFailed("check", "upload not started")>>,
        outputs |-> NoOutputs]
  ELSE LET c == CountOutputs(st, info) IN
    [log |-> CheckWarnings(st, info) \o CheckFailures(st),
     outputs |->
       [status |-> <<st>>,
        upload_result |-> c.upload_result,
        total_files |-> c.total_files,
        success_files |-> c.success_files,
        failed_files |-> c.failed_files,
        duration |-> IF start # 0 /\ info.endTime # 0
                     THEN <<toString(info.endTime - start)>> ELSE <<>>]]

\* core.setFailed sets process.exitCode to 1
HasSetFailed(msgs) == \E k \in 1..Len(msgs) : msgs[k].level = "setFailed"

----------------------------------------------------------------------------
(* The program *)

Init ==
  /\ pc = "start"
  /\ ctx = NoCtx
  /\ handlers = FALSE
  /\ status = uploadStatus.pending
  /\ uploadInfo = Null
  /\ startTime = 0
  /\ now = 1
  /\ fs = NoFs
  /\ files = <<>>
  /\ idx = 0
  /\ results = NewResults(<<>>)
  /\ inFlight = {}
  /\ attempts = <<>>
  /\ createError = NoError
  /\ log = <<>>
  /\ outputs = NoOutputs
  /\ exitCode = 0
  /\ cancelCalls = 0
  /\ checkCalls = 0
  /\ probed = <<>>
  /\ signalled = FALSE
  /\ environ = NoEnviron

Inputs == [api_token : InputVals, site_id : InputVals,
           api_base_url : InputVals, source_dir : InputVals]

\* main: getContext(), new FileUploader(inputs) (whose constructor calls
\* getContext again), process.on('SIGINT'), process.on('SIGTERM').
\* A throw of getContext rejects main(); main().catch calls core.setFailed
\* and the process ends with process.exitCode.
Main ==
  /\ pc = "start"
  /\ \E inp \in Inputs, env \in [EnvVars -> BOOLEAN] :
       /\ environ' = [api_token |-> inp.api_token, site_id |-> inp.site_id,
                      env |-> env]
       /\ IF getContextThrows(inp, env)
          THEN /\ log' = Append(log, SetFailed("main",
                                   getContextError(inp, env).message))
               /\ exitCode' = 1
               /\ pc' = "draining"
               /\ UNCHANGED <<ctx, handlers>>
          ELSE /\ ctx' = getRequiredVars(inp, env)
               /\ handlers' = TRUE
               /\ pc' = "create"
               /\ UNCHANGED <<log, exitCode>>
  /\ UNCHANGED <<status, uploadInfo, startTime, now, fs, files, idx, results,
                 inFlight, attempts, createError, outputs, cancelCalls,
                 checkCalls, probed, signalled>>

\* create, catch block: set the status, throw to main's catch block
CreateCatch(error) ==
  /\ status' = CatchStatus(status)
  /\ createError' = createCatchError(error)
  /\ pc' = "mainCatch"

\* create up to its first await: the timeout clamp, validateConfig, the
\* checks of the source directory, then validateApiAccess -> listFiles
\* issues the probe request
CreateBegin ==
  /\ pc = "create"
  /\ ctx' = [ctx EXCEPT !.timeout = IF @ > MAX_TIMEOUT THEN MAX_TIMEOUT ELSE @]
  /\ \E kind \in SrcKinds :
       LET cfgErr == validateConfig(ctx)
           dirErr == sourceDirError(kind)
       IN IF cfgErr # NoError
          THEN CreateCatch(cfgErr) /\ UNCHANGED <<fs, inFlight>>
          ELSE /\ fs' = [fs EXCEPT !.srcKind = kind]
               /\ IF dirErr # NoError
                  THEN CreateCatch(dirErr) /\ UNCHANGED inFlight
                  ELSE /\ inFlight' = inFlight \cup {ProbeReq}
                       /\ pc' = "probe"
                       /\ UNCHANGED <<status, createError>>
  /\ UNCHANGED <<environ, handlers, uploadInfo, startTime, now, files, idx, results,
                 attempts, log, outputs, exitCode, cancelCalls, checkCalls,
                 probed, signalled>>

\* the probe request resolves: validateApiAccess returns or throws; on
\* return create sets status uploading and startTime
ProbeResolve ==
  /\ pc = "probe"
  /\ ProbeReq \in inFlight
  /\ inFlight' = inFlight \ {ProbeReq}
  /\ now' = now + 1
  /\ \E outcome \in ProbeOutcomes :
       /\ probed' = <<outcome,
                      IF outcome = 200 THEN NoError
                      ELSE validateApiAccessError(AxiosError(outcome))>>
       /\ IF outcome = 200
          THEN /\ status' = uploadStatus.uploading
               /\ startTime' = now'
               /\ pc' = "enumerate"
               /\ UNCHANGED createError
          ELSE /\ CreateCatch(validateApiAccessError(AxiosError(outcome)))
               /\ UNCHANGED startTime
  /\ UNCHANGED <<environ, ctx, handlers, uploadInfo, fs, files, idx, results, attempts,
                 log, outputs, exitCode, cancelCalls, checkCalls, signalled>>

\* uploadDirectory up to its loop: getAllFiles(sourceDir) and the results
\* object; a throw of getAllFiles is rethrown to create's catch block
Enumerate ==
  /\ pc = "enumerate"
  /\ \E t \in Trees, r \in BOOLEAN :
       LET tree == [srcKind |-> fs.srcKind, readable |-> r, nodes |-> t]
           walk == getAllFiles(tree, 0)
       IN /\ fs' = tree
          /\ IF walk.ok
             THEN /\ files' = walk.files
                  /\ results' = NewResults(walk.files)
                  /\ idx' = 1
                  /\ pc' = "loop"
                  /\ UNCHANGED <<status, createError>>
             ELSE /\ CreateCatch(Err("readdir failed", 0))
                  /\ UNCHANGED <<files, results, idx>>
  /\ UNCHANGED <<environ, ctx, handlers, uploadInfo, startTime, now, inFlight, attempts,
                 log, outputs, exitCode, cancelCalls, checkCalls,
                 probed, signalled>>

\* one iteration of the loop up to the await: uploadFile either throws at
\* once (existsSync finds the local file gone), which the loop's catch
\* block records, or issues its POST request
UploadIssue ==
  /\ pc = "loop"
  /\ idx <= Len(files)
  /\ LET file == files[idx]
         call == [file |-> file.relativePath,
                  filePath |-> file.localPath,
                  uploadPath |-> dirname(file.relativePath)]
     IN \E exists \in BOOLEAN :
          IF exists
          THEN /\ attempts' = Append(attempts, call @@ [result |-> "issued"])
               /\ inFlight' = inFlight \cup {UploadReq(Len(attempts) + 1)}
               /\ pc' = IssueNext(idx).pc
               /\ idx' = IssueNext(idx).idx
               /\ UNCHANGED <<results, log>>
          ELSE /\ attempts' = Append(attempts, call @@ [result |-> "failed"])
               /\ results' = RecordFailure(results, file,
                                           Err("file does not exist", 0))
               /\ log' = Append(log, Warning("uploadDirectory", "skip",
                                   file.relativePath, "file does not exist"))
               /\ idx' = AfterFailure(idx, Len(files))
               /\ UNCHANGED <<pc, inFlight>>
  /\ UNCHANGED <<environ, ctx, handlers, status, uploadInfo, startTime, now, fs, files,
                 createError, outputs, exitCode, cancelCalls, checkCalls,
                 probed, signalled>>

\* the awaited POST request resolves: the loop body counts a success, or its
\* catch block records the failure; then the loop goes on
UploadResolve ==
  /\ pc = "awaitUpload"
  /\ \E r \in inFlight, outcome \in UploadOutcomes :
       /\ r.req = "upload"
       /\ inFlight' = inFlight \ {r}
       /\ now' = now + 1
       /\ pc' = "loop"
       /\ IF outcome = 200
          THEN /\ attempts' = [attempts EXCEPT ![r.n].result = "ok"]
               /\ results' = RecordSuccess(results)
               /\ idx' = idx + 1
               /\ UNCHANGED log
          ELSE /\ attempts' = [attempts EXCEPT ![r.n].result = "failed"]
               /\ results' = RecordFailure(results, files[idx],
                                           AxiosError(outcome))
               /\ log' = Append(log, Warning("uploadDirectory", "skip",
                                   files[idx].relativePath,
                                   AxiosError(outcome).message))
               /\ idx' = AfterFailure(idx, Len(files))
  /\ UNCHANGED <<environ, ctx, handlers, status, uploadInfo, startTime, fs, files,
                 createError, outputs, exitCode, cancelCalls, checkCalls,
                 probed, signalled>>

\* the loop is over: uploadDirectory returns results; create builds
\* uploadInfo, resolves the status and returns to main
UploadFinish ==
  /\ pc = "loop"
  /\ idx > Len(files)
  /\ uploadInfo' = MakeUploadInfo(results, ctx.buildVersion, startTime, now)
  /\ status' = ResolveStatus(results)
  /\ log' = log
       \o (IF results.failed > 0
           THEN <<Warning("uploadDirectory", "failedCount", <<>>,
                          toString(results.failed))>>
           ELSE <<>>)
       \o (IF ResolveStatus(results) # uploadStatus.success
           THEN <<Warning("create", "partialFailure", <<>>,
                          toString(results.success))>>
           ELSE <<>>)
  /\ pc' = "check"
  /\ UNCHANGED <<environ, ctx, handlers, startTime, now, fs, files, idx, results,
                 inFlight, attempts, createError, outputs, exitCode,
                 cancelCalls, checkCalls, probed, signalled>>

\* main: await fileUploader.check(); main returns and the process ends with
\* process.exitCode
Check ==
  /\ pc = "check"
  /\ LET c == check(status, uploadInfo, startTime) IN
       /\ log' = log \o c.log
       /\ outputs' = c.outputs
       /\ exitCode' = IF HasSetFailed(c.log) THEN 1 ELSE exitCode
  /\ checkCalls' = checkCalls + 1
  /\ pc' = "draining"
  /\ UNCHANGED <<environ, ctx, handlers, status, uploadInfo, startTime, now, fs, files,
                 idx, results, inFlight, attempts, createError, cancelCalls, probed,
                 signalled>>

\* main, catch block: core.setFailed, fileUploader.cancel(), process.exit(1)
MainCatch ==
  /\ pc = "mainCatch"
  /\ log' = Append(log, SetFailed("main", createError.message))
  /\ LET c == cancel(status, uploadInfo, now) IN
       /\ status' = c.status
       /\ uploadInfo' = c.uploadInfo
  /\ cancelCalls' = cancelCalls + 1
  /\ exitCode' = 1
  /\ pc' = "exited"
  /\ UNCHANGED <<environ, ctx, handlers, startTime, now, fs, files, idx, results,
                 inFlight, attempts, createError, outputs, checkCalls, probed,
                 signalled>>

\* SIGINT or SIGTERM is delivered while main is suspended on a request:
\* the handler calls fileUploader.cancel() and process.exit(1)
Signal ==
  /\ handlers
  /\ pc \in {"probe", "awaitUpload", "draining"}
  /\ \E t \in {now, now + 1} :
       LET c == cancel(status, uploadInfo, t) IN
         /\ now' = t
         /\ status' = c.status
         /\ uploadInfo' = c.uploadInfo
  /\ cancelCalls' = cancelCalls + 1
  /\ signalled' = TRUE
  /\ exitCode' = 1
  /\ pc' = "exited"
  /\ UNCHANGED <<environ, ctx, handlers, startTime, fs, files, idx, results, inFlight,
                 attempts, createError, log, outputs, checkCalls, probed>>

\* the event loop is empty: the process ends with process.exitCode
ProcessEnd ==
  /\ pc = "draining"
  /\ pc' = "exited"
  /\ UNCHANGED <<environ, ctx, handlers, status, uploadInfo, startTime, now, fs, files,
                 idx, results, inFlight, attempts, createError, log, outputs,
                 exitCode, cancelCalls, checkCalls, probed, signalled>>

Next ==
  \/ Main
  \/ CreateBegin
  \/ ProbeResolve
  \/ Enumerate
  \/ UploadIssue
  \/ UploadResolve
  \/ UploadFinish
  \/ Check
  \/ MainCatch
  \/ Signal
  \/ ProcessEnd

Spec == Init /\ [][Next]_vars

\* The event loop runs every continuation that is ready, and every request
\* that was issued resolves with a response or an error (which the code does
\* not enforce: it sets no timeout on its requests); signals need not come.
FairSpec ==
  /\ Spec
  /\ WF_vars(Main)
  /\ WF_vars(CreateBegin)
  /\ WF_vars(ProbeResolve)
  /\ WF_vars(Enumerate)
  /\ WF_vars(UploadIssue)
  /\ WF_vars(UploadResolve)
  /\ WF_vars(UploadFinish)
  /\ WF_vars(Check)
  /\ WF_vars(MainCatch)
  /\ WF_vars(ProcessEnd)

TypeOK ==
  /\ pc \in PcValues
  /\ status \in {uploadStatus[k] : k \in DOMAIN uploadStatus}
  /\ handlers \in BOOLEAN
  /\ exitCode \in {0, 1}
  /\ idx \in 0..(Len(files) + 1)

----------------------------------------------------------------------------
(* Properties *)

\* uploadDirectory has returned its result to create
Returned == uploadInfo # Null

\* the regular files under the source directory, at every depth
RegularFiles == {i \in 1..Len(fs.nodes) : fs.nodes[i].kind = "file"}

AttemptsWith(res) == {k \in 1..Len(attempts) : attempts[k].result = res}
AttemptsOf(path) == {k \in 1..Len(attempts) : attempts[k].file = path}
ErrorsOf(path) ==
  {k \in 1..Len(results.errors) : results.errors[k].file = path}

\* C1: for a source directory with N regular files and any pattern of
\* per-file successes and failures, the result uploadDirectory returns has
\* total = N, success + failed = total and errors.length = failed (success
\* and failed being the numbers of uploads that succeeded and failed).
C1_ResultCounts ==
  Returned =>
    /\ results.total = Cardinality(RegularFiles)
    /\ results.success + results.failed = results.total
    /\ Len(results.errors) = results.failed
    /\ results.success = Cardinality(AttemptsWith("ok"))
    /\ results.failed = Cardinality(AttemptsWith("failed"))
    /\ uploadInfo.total = results.total
    /\ uploadInfo.success = results.success
    /\ uploadInfo.failed = results.failed
    /\ uploadInfo.errors = results.errors

\* a batch of three files, one in a subdirectory, with failures and a success
C1_Witness ==
  /\ Returned
  /\ results.total >= 2
  /\ results.failed >= 1
  /\ results.success >= 1
  /\ \E i \in RegularFiles : fs.nodes[i].parent # 0

\* C2: a failed upload never aborts the batch: when uploadDirectory returns,
\* every enumerated file has had exactly one uploadFile call, each failed
\* file's relativePath is in errors exactly once and no uploaded file is in
\* errors; at no time has a file had two calls.
C2_EveryFileAttemptedOnce ==
  /\ \A k \in 1..Len(files) :
       Cardinality(AttemptsOf(files[k].relativePath)) <= 1
  /\ Returned =>
       \A k \in 1..Len(files) :
         LET path == files[k].relativePath IN
           /\ Cardinality(AttemptsOf(path)) = 1
           /\ \A a \in AttemptsOf(path) :
                /\ attempts[a].result \in {"ok", "failed"}
                /\ attempts[a].result = "failed"
                     => Cardinality(ErrorsOf(path)) = 1
                /\ attempts[a].result = "ok" => ErrorsOf(path) = {}

\* the first file failed and a later file was uploaded all the same
C2_Witness ==
  /\ Returned
  /\ Len(attempts) >= 2
  /\ attempts[1].result = "failed"
  /\ attempts[Len(attempts)].result = "ok"
  /\ attempts[Len(attempts)].file = files[Len(files)].relativePath

\* C3: status is success only if the upload pass has finished without a
\* failed file; once create has returned with a failed file, status is
\* failed, however many files succeeded.
C3_SuccessOnlyWithoutFailures ==
  /\ status = uploadStatus.success =>
       /\ Returned
       /\ uploadInfo.failed = 0
       /\ AttemptsWith("failed") = {}
       /\ idx > Len(files)
  /\ (Returned /\ AttemptsWith("failed") # {}) => status = uploadStatus.failed

\* one failed file among at least two
C3_Witness ==
  /\ Returned
  /\ Cardinality(AttemptsWith("failed")) = 1
  /\ Cardinality(AttemptsWith("ok")) >= 1
  /\ status = uploadStatus.failed

\* FileUploader.cancel is called in this step
CancelCalled == cancelCalls' = cancelCalls + 1

\* C4: from a non-terminal status (pending or uploading) a cancellation
\* request (cancel(), as the signal handlers call it) forces status to
\* cancelled and stamps an end time.
C4_CancelForcesCancelled ==
  [][(CancelCalled /\ status \in {uploadStatus.pending, uploadStatus.uploading})
       => /\ status' = uploadStatus.cancelled
          /\ uploadInfo' # Null
          /\ uploadInfo'.endTime = now']_vars

\* C5: cancel() is a no-op when there is no UploadInfo or when status is
\* success or failed: status, uploadInfo (counts, errors, endTime, no
\* cancelled flag) and startTime are as before the call.
C5_CancelNoOpFrame ==
  [][(/\ CancelCalled
      /\ \/ uploadInfo = Null
         \/ status \in {uploadStatus.success, uploadStatus.failed})
       => /\ status' = status
          /\ uploadInfo' = uploadInfo
          /\ startTime' = startTime
          /\ uploadInfo' # Null => ~uploadInfo'.cancelled]_vars

\* cancel was called while a file upload was awaited (no UploadInfo yet)
C5_Witness ==
  /\ cancelCalls = 1
  /\ signalled
  /\ status = uploadStatus.uploading
  /\ uploadInfo = Null
  /\ startTime # 0
  /\ inFlight # {}

\* a step of create threw: a missing config field, a source directory that
\* is missing or not a directory, a failed probe, a failed enumeration
ConfigThrew == handlers /\ pc # "create" /\ validateConfig(ctx) # NoError
SourceDirThrew == fs.srcKind \in {"missing", "file"}
ProbeThrew == probed # <<>> /\ probed[1] # 200
EnumerateThrew == ~getAllFiles(fs, 0).ok
CreateThrew == ConfigThrew \/ SourceDirThrew \/ ProbeThrew \/ EnumerateThrew

GetContextThrew == ~handlers /\ pc \in {"draining", "exited"}

\* C6: the process ends with exit code 0 only when every file was uploaded;
\* a configuration error, a source-directory error, an access-check error,
\* a failed file in the batch or a signal handled by the registered
\* handlers leads to exit code 1.
C6_ExitCode ==
  pc = "exited" =>
    /\ exitCode = 0 =>
         /\ Returned
         /\ status = uploadStatus.success
         /\ Cardinality(AttemptsWith("ok")) = Cardinality(RegularFiles)
         /\ AttemptsWith("failed") = {}
    /\ (\/ GetContextThrew
        \/ CreateThrew
        \/ AttemptsWith("failed") # {}
        \/ signalled) => exitCode = 1

\* the batch ran to its end with a failed file and the process ended by
\* itself, with no signal
C6_Witness ==
  /\ pc = "exited"
  /\ ~signalled
  /\ checkCalls = 1
  /\ Cardinality(AttemptsWith("failed")) = 1
  /\ Cardinality(AttemptsWith("ok")) >= 1
  /\ exitCode = 1

\* C7: whenever the upload pass finishes with failed > 0, the final status
\* is failed and the check() that follows emits a warning that enumerates
\* each failed file with its error message.
C7_CheckListsFailedFiles ==
  (checkCalls > 0 /\ Returned /\ uploadInfo.failed > 0) =>
    /\ status = uploadStatus.failed
    /\ \A k \in 1..Len(uploadInfo.errors) :
         \E m \in 1..Len(log) :
           /\ log[m].fn = "check"
           /\ log[m].level = "warning"
           /\ log[m].file = uploadInfo.errors[k].file
           /\ log[m].msg = uploadInfo.errors[k].error

CountOutputNames ==
  {"upload_result", "total_files", "success_files", "failed_files"}
CheckSetFailed ==
  \E m \in 1..Len(log) : log[m].fn = "check" /\ log[m].level = "setFailed"

\* C8: check() emits upload_result, total_files, success_files and
\* failed_files only when status is success; on status failed or cancelled
\* it emits a hard failure and the status output and none of the four; when
\* the four are emitted, failed_files is "0" and success_files equals
\* total_files.
C8_CountOutputsOnlyOnSuccess ==
  checkCalls > 0 =>
    /\ (\E o \in CountOutputNames : outputs[o] # <<>>)
         => /\ status = uploadStatus.success
            /\ outputs.failed_files = <<"0">>
            /\ outputs.success_files = outputs.total_files
            /\ outputs.total_files # <<>>
    /\ status \in {uploadStatus.failed, uploadStatus.cancelled}
         => /\ CheckSetFailed
            /\ outputs.status = <<status>>
            /\ \A o \in CountOutputNames : outputs[o] = <<>>

\* check ran on status failed after a partly failed batch
C8_Witness ==
  /\ checkCalls = 1
  /\ status = uploadStatus.failed
  /\ uploadInfo # Null
  /\ uploadInfo.success >= 1
  /\ outputs.status = <<uploadStatus.failed>>
  /\ outputs.duration # <<>>

\* C9: if a step of create() throws, then, when create has handed control
\* back, status is failed, an error has been raised to the caller and
\* uploadInfo is still null.
C9_CreateThrowSetsFailed ==
  CreateThrew =>
    /\ status = uploadStatus.failed
    /\ createError # NoError
    /\ uploadInfo = Null
    /\ pc \in {"mainCatch", "exited"}

\* the directory enumeration threw after status had become uploading
C9_Witness ==
  /\ pc = "mainCatch"
  /\ EnumerateThrew
  /\ startTime # 0
  /\ status = uploadStatus.failed
  /\ createError # NoError

UploadsInFlight == {r \in inFlight : r.req = "upload"}

\* C10: at most one file upload request is in flight at any moment: the
\* loop issues the next file's request only when the previous one has
\* resolved.
C10_OneUploadInFlight ==
  /\ Cardinality(UploadsInFlight) <= 1
  /\ pc = "loop" => UploadsInFlight = {}
  /\ \A k \in 1..(Len(attempts) - 1) : attempts[k].result # "issued"

\* the second request of a batch is in flight, alone
C10_Witness ==
  /\ pc = "awaitUpload"
  /\ Cardinality(AttemptsWith("ok")) >= 1
  /\ attempts[Len(attempts)].result = "issued"
  /\ Cardinality(UploadsInFlight) = 1

\* the parent directory of a relative path; the source directory itself is
\* the empty path ""
ParentDir(p) == SubSeq(p, 1, Len(p) - 1)

\* C11: for every enumerated file, uploadFile is called with uploadPath equal
\* to the parent directory of the file's relativePath: "" for a file directly
\* under the source directory, the directory's path for a nested file.
C11_UploadPathIsParentDir ==
  \A k \in 1..Len(attempts) :
    /\ attempts[k].uploadPath = ParentDir(attempts[k].file)
    /\ Len(attempts[k].file) = 1 => attempts[k].uploadPath = <<>>

\* C12: when the access probe fails, validateApiAccess throws a refined
\* error of its own for each of the statuses 401, 403 and 404 (three
\* different messages, no response attached) and for any other status or a
\* failure without a response it rethrows the error of the request as it
\* is; when the probe succeeds it returns true and create goes on.
C12_ProbeErrors ==
  probed # <<>> =>
    LET outcome == probed[1]
        thrown == probed[2]
    IN /\ outcome = 200 => thrown = NoError /\ startTime # 0
       /\ outcome = 401 => thrown = Err("API Token invalid or expired", 0)
       /\ outcome = 403 => thrown = Err("API Token lacks permission", 0)
       /\ outcome = 404 => thrown = Err("site id does not exist", 0)
       /\ outcome \notin {200, 401, 403, 404} =>
            /\ thrown = AxiosError(outcome)
            /\ thrown.response = outcome
       /\ outcome # 200 => thrown # NoError /\ startTime = 0

\* the probe was answered with 403 and create has thrown
C12_Witness ==
  /\ probed # <<>>
  /\ probed[1] = 403
  /\ probed[2].message = "API Token lacks permission"
  /\ pc = "mainCatch"

\* uploadDirectory has called getAllFiles on the source directory
Enumerated == pc \notin {"start", "create", "probe", "enumerate"} /\ startTime # 0

\* a directory of the tree cannot be read / a listed file cannot be stat'ed
UnreadableDir ==
  ~fs.readable \/ \E i \in 1..Len(fs.nodes) : fs.nodes[i].kind = "baddir"
VanishedFile == \E i \in 1..Len(fs.nodes) : fs.nodes[i].kind = "vanished"

FilesAt(path) == {k \in 1..Len(files) : files[k].relativePath = path}

\* C13: getAllFiles returns a sequence in which every regular file at every
\* depth appears exactly once and no directory (nor any other entry that is
\* not a regular file) appears; on an empty directory it returns the empty
\* sequence; if reading a directory of the tree fails, the walk throws and
\* leaves no partial result.
C13_GetAllFiles ==
  Enumerated =>
    /\ UnreadableDir =>
         /\ files = <<>>
         /\ attempts = <<>>
         /\ createError = Err("readdir failed", 0)
         /\ uploadInfo = Null
    /\ (~UnreadableDir /\ ~VanishedFile) =>
         /\ createError = NoError
         /\ \A i \in 1..Len(fs.nodes) :
              IF fs.nodes[i].kind = "file"
              THEN Cardinality(FilesAt(relative(fs.nodes, i))) = 1
              ELSE FilesAt(relative(fs.nodes, i)) = {}
         /\ Len(files) = Cardinality(RegularFiles)
         /\ \A k \in 1..Len(files) :
              /\ files[k].localPath = <<"sourceDir">> \o files[k].relativePath
              /\ files[k].name = files[k].relativePath[Len(files[k].relativePath)]
         /\ fs.nodes = <<>> => files = <<>>

\* a file two directories down is found, next to nothing else
C13_Witness ==
  /\ Enumerated
  /\ Len(files) = 1
  /\ Len(files[1].relativePath) = 3
  /\ createError = NoError

\* the run that differs from this one only in that the three environment
\* variables are all set: the inputs as read (the optional inputs never
\* decide whether getContext throws) and the full environment
TwinInputs == [api_token |-> environ.api_token, site_id |-> environ.site_id,
               api_base_url |-> "absent", source_dir |-> "absent"]
AllSet == [v \in EnvVars |-> TRUE]

\* C14: GITHUB_RUN_ID, GITHUB_REPOSITORY and GITHUB_SHA are used for logging
\* only: a run takes the same path through the Context Loader as the run
\* with the same inputs and the three variables set (both pass it or both
\* fail in it).
C14_EnvVarsLoggingOnly ==
  pc # "start" => (~handlers <=> getContextThrows(TwinInputs, AllSet))

\* C15: when the required input site_id or api_token is omitted, the Context
\* Loader fails with an error that names the missing input (the first one
\* read, if both are missing) before any network call: no probe and no
\* upload is ever issued in that run.
C15_MissingInputFailsEarly ==
  (environ.api_token = "absent" \/ environ.site_id = "absent") =>
    /\ ~handlers
    /\ pc \in {"draining", "exited"}
    /\ inFlight = {}
    /\ probed = <<>>
    /\ attempts = <<>>
    /\ status = uploadStatus.pending
    /\ uploadInfo = Null
    /\ exitCode = 1
    /\ log = <<SetFailed("main",
                 IF environ.api_token = "absent"
                 THEN "Input required and not supplied: api_token"
                 ELSE "Input required and not supplied: site_id")>>

\* site_id alone was omitted and the process has ended
C15_Witness ==
  /\ environ.site_id = "absent"
  /\ environ.api_token = "value"
  /\ \A v \in EnvVars : environ.env[v]
  /\ pc = "exited"
  /\ log[1].msg = "Input required and not supplied: site_id"

\* create has set status uploading at some time / an upload was begun
BecameUploading == status = uploadStatus.uploading \/ startTime # 0
UploadBegun == attempts # <<>> \/ UploadsInFlight # {}

\* C16: no file upload is issued and status never becomes uploading unless
\* validateConfig, the checks of the source directory and the access probe
\* have all succeeded before, in the same call of create.
C16_UploadOnlyAfterValidation ==
  (BecameUploading \/ UploadBegun) =>
    /\ validateConfig(ctx) = NoError
    /\ fs.srcKind = "dir"
    /\ probed # <<>>
    /\ probed[1] = 200
    /\ ProbeReq \notin inFlight

\* the first upload is in flight, after a probe answered with 200
C16_Witness ==
  /\ status = uploadStatus.uploading
  /\ pc = "awaitUpload"
  /\ Len(attempts) = 1
  /\ probed = <<200, NoError>>
  /\ fs.srcKind = "dir"

\* C17: in every reachable state, whatever the interleaving of create, check,
\* cancel and the signal handlers, uploadInfo is non-null only when status
\* is success or failed.
C17_UploadInfoOnlyWhenTerminal ==
  uploadInfo # Null =>
    status \in {uploadStatus.success, uploadStatus.failed}

\* a signal handler has called cancel after create had set uploadInfo
C17_Witness ==
  /\ uploadInfo # Null
  /\ signalled
  /\ cancelCalls = 1
  /\ checkCalls = 1
  /\ status = uploadStatus.success
  /\ uploadInfo.total >= 1

\* create has handed control back to main, by return or by throw
CreateTerminated ==
  handlers /\ pc \in {"check", "draining", "mainCatch", "exited"}

\* C18: if every issued request (the probe, each upload) resolves in the end
\* and no signal arrives, create terminates with status success or failed,
\* and when it returns a result every one of the N enumerated files has had
\* its one upload attempt.  (A run in which the Context Loader fails never
\* calls create.)
C18_CreateTerminates ==
  <>(\/ signalled
     \/ GetContextThrew
     \/ /\ CreateTerminated
        /\ status \in {uploadStatus.success, uploadStatus.failed}
        /\ Returned =>
             /\ Len(attempts) = Len(files)
             /\ Len(attempts) = Cardinality(RegularFiles)
             /\ AttemptsWith("issued") = {}
             /\ inFlight = {})

\* create has returned after three attempts for three files, with no signal
C18_Witness ==
  /\ CreateTerminated
  /\ ~signalled
  /\ Returned
  /\ Len(files) >= 2
  /\ Len(attempts) = Len(files)
  /\ status \in {uploadStatus.success, uploadStatus.failed}
  /\ pc = "check"

====
